---------------------------- MODULE Spec2Model ----------------------------
(***************************************************************************)
(* The task store of the todo manager (the useTodoManager hook), the API   *)
(* client it calls (todoApi) and the REST backend the client talks to.     *)
(*                                                                         *)
(* A JavaScript object is a function whose DOMAIN is the set of the        *)
(* properties it has: a property that is undefined is not in the DOMAIN.   *)
(* A date-like value is a pair <<kind, t>>: <<"Date", t>> is a Date object  *)
(* at instant t, <<"iso", t>> its serialized text, <<"null", 0>> is null,  *)
(* <<"Invalid", 0>> is an Invalid Date.                                    *)
(* An id is a pair too: <<"temp", n>> is `temp-${n}`, <<"str", n>> the     *)
(* decimal string of n, <<"srv", n>> an id the backend assigned.           *)
(***************************************************************************)
EXTENDS Integers, Sequences, FiniteSets, TLC

\* ---- bounds of the model
\* store operations invoked in one behaviour (the mount-time load included)
MaxCalls == 3
\* times the millisecond clock advances in one behaviour
MaxClock == 1
\* the user acts on the tasks at the first MaxPos positions of the collection
MaxPos == 1

DayMs == 24 * 60 * 60 * 1000
\* the value of Date.now() when the page is constructed
Epoch == 10 * DayMs

VARIABLES
  tasks,         \* useState([]): the task collection
  loading,       \* useState(false)
  error,         \* useState(null): the current-error slot
  localStorage,  \* the value under the key 'taskflow-tasks' (NoItem: no such key)
  calls,         \* every store operation invoked so far, in flight or settled
  server,        \* the backend's task list
  nextId,        \* the backend's id counter
  now,           \* Date.now()
  crashed,       \* a state updater threw while rendering: the tree is unmounted
  searchQuery,   \* useState(''): the search string
  filters,       \* useState({ status, priority, category, tags })
  sortConfig,    \* useState({ field: 'createdAt', direction: 'desc' })
  selectedCategory, \* Home: useState('all')
  visible,       \* the list the last computation of the visible tasks returned
  apiLog,        \* the direct calls of todoApi made so far, each with what it returned
  formData,      \* TaskForm: useState({ title, description, priority, category, tags, dueDate })
  errors,        \* TaskForm: useState({}): the validation messages
  submitted      \* what TaskForm handed to onSubmit so far (kept for the properties)

\* the state of the store and of the requests
storeVars == <<tasks, loading, error, localStorage, calls, server, nextId, now, crashed>>
\* the state of the filter / sort projection
viewVars == <<searchQuery, filters, sortConfig, selectedCategory, visible>>
\* the state of the task form
formVars == <<formData, errors, submitted>>
vars == <<tasks, loading, error, localStorage, calls, server, nextId, now, crashed,
          searchQuery, filters, sortConfig, selectedCategory, visible, apiLog,
          formData, errors, submitted>>

\* ---- JavaScript values
EmptyObj == [f \in {} |-> 0]
Has(o, f) == f \in DOMAIN o
\* { ...a, ...b }
Spread(a, b) == [f \in DOMAIN a \cup DOMAIN b |-> IF f \in DOMAIN b THEN b[f] ELSE a[f]]
SeqMap(F(_), s) == [i \in 1..Len(s) |-> F(s[i])]
RECURSIVE SeqFilter(_, _)
SeqFilter(P(_), s) ==
  IF s = <<>> THEN <<>>
  ELSE IF P(Head(s)) THEN <<Head(s)>> \o SeqFilter(P, Tail(s))
  ELSE SeqFilter(P, Tail(s))

NullV == <<"null", 0>>
DateV(t) == <<"Date", t>>
IsoV(t) == <<"iso", t>>
InvalidDate == <<"Invalid", 0>>
\* new Date(v) for v a Date, a serialized date or null
NewDate(v) == IF v[1] = "null" THEN DateV(0) ELSE IF v[1] = "Invalid" THEN v ELSE DateV(v[2])
\* new Date(o[f]) where the property may be undefined
NewDateOf(o, f) == IF Has(o, f) THEN NewDate(o[f]) ELSE InvalidDate
\* o[f] is truthy, for a date-like property
TruthyDate(o, f) == Has(o, f) /\ o[f][1] # "null"
\* Date.prototype.toJSON: the ISO text, null for an Invalid Date
JsonDate(v) == IF v[1] = "Date" THEN IsoV(v[2]) ELSE IF v[1] = "Invalid" THEN NullV ELSE v

NoId == <<"none", 0>>
TempId(n) == <<"temp", n>>
StrId(n) == <<"str", n>>
IdOf(o) == IF Has(o, "id") THEN o.id ELSE NoId

DateFields == {"createdAt", "updatedAt", "dueDate"}
JsonSubtask(s) == [f \in DOMAIN s |-> IF f = "createdAt" THEN JsonDate(s[f]) ELSE s[f]]
\* JSON.stringify / JSON.parse of an object: dates become text, the rest is kept
JsonObj(o) ==
  [f \in DOMAIN o |->
     IF f \in DateFields THEN JsonDate(o[f])
     ELSE IF f = "subtasks" THEN SeqMap(JsonSubtask, o[f])
     ELSE o[f]]
JsonList(ts) == SeqMap(JsonObj, ts)

NoError == <<"null", 0>>
\* the Error object the failure of call c produces
Err(c) == <<"Error", c>>
\* localStorage.getItem: null when the key was never set
NoItem == [present |-> FALSE, value |-> <<>>]
Item(v) == [present |-> TRUE, value |-> v]

\* ---- todoApi.js
MockSubtask(id, taskId, title, completed, order, t) ==
  [id |-> <<"sub", id>>, taskId |-> StrId(taskId), title |-> title, completed |-> completed,
   createdAt |-> DateV(t), order |-> order]

getMockTasks(t) ==
  << [id |-> StrId(1), title |-> "Welcome to TaskFlow!",
      description |-> "This is a demo task to showcase the todo manager features.",
      completed |-> FALSE, priority |-> "high", tags |-> <<"demo", "welcome">>,
      category |-> "Getting Started", dueDate |-> DateV(t + 7 * DayMs),
      createdAt |-> DateV(t), updatedAt |-> DateV(t),
      subtasks |-> << MockSubtask(1, 1, "Explore the interface", TRUE, 0, t),
                      MockSubtask(2, 1, "Try adding a new task", FALSE, 1, t) >>,
      order |-> 0],
     [id |-> StrId(2), title |-> "Build amazing projects",
      description |-> "Use this todo manager to organize your work and boost productivity.",
      completed |-> FALSE, priority |-> "medium", tags |-> <<"productivity", "projects">>,
      category |-> "Work", dueDate |-> NullV,
      createdAt |-> DateV(t - 2 * DayMs), updatedAt |-> DateV(t),
      subtasks |-> <<>>, order |-> 1],
     [id |-> StrId(3), title |-> "Learn React and modern web development",
      description |-> "Master the latest technologies and frameworks.",
      completed |-> TRUE, priority |-> "low", tags |-> <<"learning", "react", "javascript">>,
      category |-> "Study", dueDate |-> DateV(t - 1 * DayMs),
      createdAt |-> DateV(t - 5 * DayMs), updatedAt |-> DateV(t),
      subtasks |-> << MockSubtask(3, 3, "Complete React tutorial", TRUE, 0, t) >>,
      order |-> 2],
     [id |-> StrId(4), title |-> "Prepare for Math Exam",
      description |-> "Study calculus and linear algebra for the upcoming semester exam.",
      completed |-> FALSE, priority |-> "high", tags |-> <<"math", "exam", "calculus">>,
      category |-> "Study", dueDate |-> DateV(t + 3 * DayMs),
      createdAt |-> DateV(t - 1 * DayMs), updatedAt |-> DateV(t),
      subtasks |-> << MockSubtask(4, 4, "Review chapter 1-5", FALSE, 0, t),
                      MockSubtask(5, 4, "Practice problems", FALSE, 1, t) >>,
      order |-> 3] >>

\* subtask => ({ ...subtask, createdAt: subtask.createdAt ? new Date(..) : new Date() })
transformSubtaskDate(s, t) ==
  Spread(s, [createdAt |-> IF TruthyDate(s, "createdAt") THEN NewDate(s.createdAt) ELSE DateV(t)])

transformTaskDates(task, t) ==
  Spread(task,
    [createdAt |-> IF TruthyDate(task, "createdAt") THEN NewDate(task.createdAt) ELSE DateV(t),
     updatedAt |-> IF TruthyDate(task, "updatedAt") THEN NewDate(task.updatedAt) ELSE DateV(t),
     dueDate |-> IF TruthyDate(task, "dueDate") THEN NewDate(task.dueDate) ELSE NullV,
     subtasks |-> IF Has(task, "subtasks")
                  THEN [i \in 1..Len(task.subtasks) |-> transformSubtaskDate(task.subtasks[i], t)]
                  ELSE <<>>])

\* what an awaited promise settles to
Resolved(v) == [rejected |-> FALSE, value |-> v]
Rejected(c) == [rejected |-> TRUE, value |-> Err(c)]
\* what axios got: a 2xx response with its data, or a transport / non-2xx failure
HttpOk(d) == [ok |-> TRUE, data |-> d]
HttpFail == [ok |-> FALSE, data |-> <<>>]

\* variant of getTasks that rethrows a failure instead of returning the mock tasks
getTasksRethrows(http, t) ==
  IF http.ok
  THEN Resolved([i \in 1..Len(http.data) |-> transformTaskDates(http.data[i], t)])
  ELSE [rejected |-> TRUE, value |-> Err(0)]

\* todoApi.getTasks: the response's tasks, the mock tasks when the request failed
getTasks(http, t) ==
  IF http.ok
  THEN Resolved([i \in 1..Len(http.data) |-> transformTaskDates(http.data[i], t)])
  ELSE Resolved(getMockTasks(t))

\* the body todoApi.createTask posts
createTaskBody(taskData, t) ==
  JsonObj(Spread(taskData, [createdAt |-> DateV(t), updatedAt |-> DateV(t)]))

\* variant of createTask that rethrows a failure instead of building a mock task
createTaskRethrows(taskData, http, t) ==
  IF http.ok
  THEN Resolved(transformTaskDates(http.data, t))
  ELSE [rejected |-> TRUE, value |-> Err(0)]

\* todoApi.createTask: the created task, a mock created task when the request failed
createTask(taskData, http, t) ==
  IF http.ok
  THEN Resolved(transformTaskDates(http.data, t))
  ELSE Resolved(Spread(Spread([id |-> StrId(t)], taskData),
                       [completed |-> FALSE, createdAt |-> DateV(t), updatedAt |-> DateV(t),
                        subtasks |-> <<>>, order |-> t]))

updateTaskBody(taskData, t) == JsonObj(Spread(taskData, [updatedAt |-> DateV(t)]))

\* todoApi.updateTask: the saved task, { id, ...taskData, updatedAt } when the request failed
updateTask(taskId, taskData, http, t) ==
  IF http.ok
  THEN Resolved(transformTaskDates(http.data, t))
  ELSE Resolved(Spread(Spread([id |-> taskId], taskData), [updatedAt |-> DateV(t)]))

\* todoApi.deleteTask: resolves whether or not the request failed
deleteTask(http) == Resolved(EmptyObj)

\* todoApi.reorderTasks: the reordered tasks; a failure is rethrown
reorderTasks(http, t, c) ==
  IF http.ok
  THEN Resolved([i \in 1..Len(http.data) |-> transformTaskDates(http.data[i], t)])
  ELSE Rejected(c)

\* todoApi.searchTasks, getTasksByCategory, getTasksByPriority: the tasks of the
\* response; a failure is rethrown
searchTasks(http, t, c) ==
  IF http.ok
  THEN Resolved([i \in 1..Len(http.data) |-> transformTaskDates(http.data[i], t)])
  ELSE Rejected(c)
getTasksByCategory(http, t, c) ==
  IF http.ok
  THEN Resolved([i \in 1..Len(http.data) |-> transformTaskDates(http.data[i], t)])
  ELSE Rejected(c)
getTasksByPriority(http, t, c) ==
  IF http.ok
  THEN Resolved([i \in 1..Len(http.data) |-> transformTaskDates(http.data[i], t)])
  ELSE Rejected(c)

addSubtaskBody(subtaskData, t) == JsonObj(Spread(subtaskData, [createdAt |-> DateV(t)]))

\* todoApi.addSubtask / updateSubtask: { ...response.data, createdAt: new Date(..) }
subtaskResult(http, c) ==
  IF http.ok
  THEN Resolved(Spread(http.data, [createdAt |-> NewDateOf(http.data, "createdAt")]))
  ELSE Rejected(c)

\* todoApi.deleteSubtask
deleteSubtaskResult(http, c) == IF http.ok THEN Resolved(EmptyObj) ELSE Rejected(c)

\* ---- the backend: a REST resource of tasks, as section 6 of the specification
\* describes it (list, create, partial update, delete, reorder by ordered id
\* list, subtasks scoped to a parent task); an unknown id answers 404
IndexOf(ts, id) ==
  IF \E i \in 1..Len(ts) : IdOf(ts[i]) = id
  THEN CHOOSE i \in 1..Len(ts) : IdOf(ts[i]) = id /\ \A j \in 1..(i - 1) : IdOf(ts[j]) # id
  ELSE 0
RemoveAt(s, i) == SubSeq(s, 1, i - 1) \o SubSeq(s, i + 1, Len(s))
ReplaceAt(s, i, v) == [s EXCEPT ![i] = v]
Ids(ts) == [i \in 1..Len(ts) |-> IdOf(ts[i])]
IdSet(ts) == {IdOf(ts[i]) : i \in 1..Len(ts)}

SeedTasks ==
  << [id |-> <<"srv", 1>>, title |-> "Pay rent", description |-> "", completed |-> FALSE,
      priority |-> "high", tags |-> <<"home">>, category |-> "Home", dueDate |-> NullV,
      createdAt |-> IsoV(Epoch - DayMs), updatedAt |-> IsoV(Epoch - DayMs),
      subtasks |-> << [id |-> <<"srvsub", 1>>, taskId |-> <<"srv", 1>>, title |-> "Find the bill",
                       completed |-> FALSE, createdAt |-> IsoV(Epoch - DayMs), order |-> 0] >>,
      order |-> 0],
     [id |-> <<"srv", 2>>, title |-> "Write report", description |-> "Quarterly",
      completed |-> TRUE, priority |-> "low", tags |-> <<"work">>, category |-> "Work",
      dueDate |-> IsoV(Epoch + DayMs), createdAt |-> IsoV(Epoch - DayMs),
      updatedAt |-> IsoV(Epoch - DayMs), subtasks |-> <<>>, order |-> 1] >>

ServerList == [http |-> HttpOk(server), server |-> server, nextId |-> nextId]

ServerCreate(body) ==
  LET created == Spread(body, [id |-> <<"srv", nextId>>, completed |-> FALSE,
                               subtasks |-> <<>>, order |-> Len(server)])
  IN [http |-> HttpOk(created), server |-> Append(server, created), nextId |-> nextId + 1]

ServerNotFound == [http |-> HttpFail, server |-> server, nextId |-> nextId]

ServerUpdate(id, body) ==
  LET i == IndexOf(server, id)
      saved == Spread(server[i], body)
  IN IF i = 0 THEN ServerNotFound
     ELSE [http |-> HttpOk(saved), server |-> ReplaceAt(server, i, saved), nextId |-> nextId]

ServerDelete(id) ==
  LET i == IndexOf(server, id)
  IN IF i = 0 THEN ServerNotFound
     ELSE [http |-> HttpOk(EmptyObj), server |-> RemoveAt(server, i), nextId |-> nextId]

\* the tasks the ordered id list names, in that order, then the others
ServerReorder(taskIds) ==
  LET named == [k \in 1..Len(taskIds) |-> server[IndexOf(server, taskIds[k])]]
      NotNamed(t) == \A k \in 1..Len(taskIds) : taskIds[k] # IdOf(t)
      all == named \o SeqFilter(NotNamed, server)
      ordered == [k \in 1..Len(all) |-> Spread(all[k], [order |-> k - 1])]
  IN IF \E k \in 1..Len(taskIds) : IndexOf(server, taskIds[k]) = 0 THEN ServerNotFound
     ELSE [http |-> HttpOk(ordered), server |-> ordered, nextId |-> nextId]

ServerAddSubtask(id, body) ==
  LET i == IndexOf(server, id)
      sub == Spread(body, [id |-> <<"srvsub", nextId>>, taskId |-> id, completed |-> FALSE,
                           order |-> Len(server[i].subtasks)])
      task == Spread(server[i], [subtasks |-> Append(server[i].subtasks, sub)])
  IN IF i = 0 THEN ServerNotFound
     ELSE [http |-> HttpOk(sub), server |-> ReplaceAt(server, i, task), nextId |-> nextId + 1]

ServerUpdateSubtask(id, subId, body) ==
  LET i == IndexOf(server, id)
      k == IF i = 0 THEN 0 ELSE IndexOf(server[i].subtasks, subId)
      sub == Spread(server[i].subtasks[k], body)
      task == Spread(server[i], [subtasks |-> ReplaceAt(server[i].subtasks, k, sub)])
  IN IF k = 0 THEN ServerNotFound
     ELSE [http |-> HttpOk(sub), server |-> ReplaceAt(server, i, task), nextId |-> nextId]

ServerDeleteSubtask(id, subId) ==
  LET i == IndexOf(server, id)
      k == IF i = 0 THEN 0 ELSE IndexOf(server[i].subtasks, subId)
      task == Spread(server[i], [subtasks |-> RemoveAt(server[i].subtasks, k)])
  IN IF k = 0 THEN ServerNotFound
     ELSE [http |-> HttpOk(EmptyObj), server |-> ReplaceAt(server, i, task), nextId |-> nextId]

\* ---- useTodoManager: the store
\* `undefined`, as the result of a find that matched nothing or of a void call
Undefined == EmptyObj
IsUndefined(v) == DOMAIN v = {}
\* tasks.find(task => task.id === taskId)
FindTask(ts, taskId) == IF IndexOf(ts, taskId) = 0 THEN Undefined ELSE ts[IndexOf(ts, taskId)]
\* prev.map(task => task.id === id ? v : task)
MapReplace(ts, id, v) == [i \in 1..Len(ts) |-> IF IdOf(ts[i]) = id THEN v ELSE ts[i]]
\* prev.filter(task => task.id !== id)
FilterOut(ts, id) == LET Keep(t) == IdOf(t) # id IN SeqFilter(Keep, ts)

\* One invocation of a store operation: its arguments, what its closure captured
\* (closure: the `tasks` of the render the callback belongs to), the request it
\* awaits and, once settled, whether the promise it returned resolved or rejected.
NewCall(op) ==
  [op |-> op, pc |-> "sent", attempt |-> 1, closure |-> <<>>, taskId |-> NoId, subId |-> NoId,
   data |-> EmptyObj, tempId |-> NoId, original |-> EmptyObj, optimistic |-> EmptyObj,
   newOrder |-> <<>>,
   body |-> EmptyObj, http |-> HttpFail, outcome |-> "pending", toggle |-> FALSE,
   overlap |-> {}]

\* the calls that have not settled
InFlight == {c \in 1..Len(calls) : calls[c].pc # "done"}
\* the list of calls with a new one; `overlap` records, for each call, the calls
\* that were in flight at some moment while it was (kept for the properties)
Invoke(call) ==
  Append([c \in 1..Len(calls) |->
            IF c \in InFlight THEN [calls[c] EXCEPT !.overlap = @ \cup {Len(calls) + 1}]
            ELSE calls[c]],
         [call EXCEPT !.overlap = InFlight])

\* what the code after an await does to the store and to the call
Effect(ts, err, ls, ld, outcome) ==
  [tasks |-> ts, error |-> err, localStorage |-> ls, loading |-> ld, outcome |-> outcome,
   crashed |-> FALSE]

\* saveToLocalStorage(tasksToSave)
saveToLocalStorage(tasksToSave) == Item(JsonList(tasksToSave))

\* the task objects loadTasks rebuilds from the parsed snapshot
FromSnapshot(parsedTasks) ==
  [i \in 1..Len(parsedTasks) |->
     Spread(parsedTasks[i],
       [createdAt |-> NewDateOf(parsedTasks[i], "createdAt"),
        updatedAt |-> NewDateOf(parsedTasks[i], "updatedAt"),
        dueDate |-> IF TruthyDate(parsedTasks[i], "dueDate")
                    THEN NewDate(parsedTasks[i].dueDate) ELSE NullV])]

\* loadTasks up to its await: setLoading(true), setError(null), the GET is sent
loadTasks ==
  /\ ~crashed
  /\ Len(calls) < MaxCalls
  /\ loading' = TRUE
  /\ error' = NoError
  /\ calls' = Invoke(NewCall("load"))
  /\ UNCHANGED <<tasks, localStorage, server, nextId, now, crashed>>

\* variant of loadTasksSettle without the setLoading(false) of its finally block
loadTasksSettleNoFinally(c, r) ==
  IF ~r.rejected
  THEN Effect(r.value, error, localStorage, loading, "resolved")
  ELSE Effect(IF localStorage.present THEN FromSnapshot(localStorage.value) ELSE tasks,
              r.value, localStorage, loading, "resolved")

\* loadTasks after its await
loadTasksSettle(c, r) ==
  IF ~r.rejected
  THEN Effect(r.value, error, localStorage, FALSE, "resolved")
  ELSE Effect(IF localStorage.present THEN FromSnapshot(localStorage.value) ELSE tasks,
              r.value, localStorage, FALSE, "resolved")

\* useEffect(() => { loadTasks(); }, []): the load issued when the hook mounts
Mount == calls = <<>> /\ loadTasks

\* refreshTasks
refreshTasks == calls # <<>> /\ loadTasks

\* addTask up to its await: the provisional task is put at the head
addTask(taskData) ==
  LET tempId == TempId(now)
      newTask == Spread(Spread([id |-> tempId], taskData),
                        [completed |-> FALSE, createdAt |-> DateV(now), updatedAt |-> DateV(now),
                         subtasks |-> <<>>, order |-> Len(tasks)])
  IN /\ ~crashed
     /\ calls # <<>>
     /\ Len(calls) < MaxCalls
     /\ loading' = TRUE
     /\ error' = NoError
     /\ tasks' = <<newTask>> \o tasks
     /\ calls' = Invoke([NewCall("create") EXCEPT !.closure = tasks, !.data = taskData,
                                   !.tempId = tempId, !.body = createTaskBody(taskData, now)])
     /\ UNCHANGED <<localStorage, server, nextId, now, crashed>>

\* variant of addTaskSettle that puts the created task at the head and leaves
\* the provisional entry where it is
addTaskSettlePrepends(c, r) ==
  LET call == calls[c]
  IN Effect(<<r.value>> \o tasks, error, saveToLocalStorage(<<r.value>> \o call.closure),
            FALSE, "resolved")

\* addTask after an await: of the first createTask (attempt 1), or of the second
\* one its catch block makes (attempt 2)
addTaskSettle(c, r) ==
  LET call == calls[c]
      replaced == MapReplace(tasks, call.tempId, r.value)
  IN IF call.attempt = 1
     THEN IF ~r.rejected
          THEN Effect(replaced, error, saveToLocalStorage(<<r.value>> \o call.closure),
                      FALSE, "resolved")
          ELSE Effect(tasks, error, localStorage, loading, "pending")
     ELSE IF r.rejected
          THEN Effect(tasks, error, localStorage, FALSE, "rejected")
          ELSE IF ~IsUndefined(r.value)
               THEN Effect(replaced, error, localStorage, FALSE, "resolved")
               ELSE Effect(FilterOut(tasks, call.tempId), Err(c), localStorage, FALSE, "resolved")

\* updateTask up to its await: the merged task replaces the original
updateTaskCall(taskId, updateData, viaToggle) ==
  LET originalTask == FindTask(tasks, taskId)
      updatedTask == Spread(Spread(originalTask, updateData), [updatedAt |-> DateV(now)])
  IN /\ ~crashed
     /\ calls # <<>>
     /\ Len(calls) < MaxCalls
     /\ loading' = TRUE
     /\ error' = NoError
     /\ tasks' = MapReplace(tasks, taskId, updatedTask)
     /\ calls' = Invoke([NewCall("update") EXCEPT !.closure = tasks, !.taskId = taskId,
                                   !.data = updateData, !.original = originalTask,
                                   !.optimistic = updatedTask,
                                   !.body = updateTaskBody(updateData, now),
                                   !.toggle = viaToggle])
     /\ UNCHANGED <<localStorage, server, nextId, now, crashed>>

\* variant of updateTaskSettle that writes the saved task into the collection its
\* callback captured instead of into the current one
updateTaskSettleFromClosure(c, r) ==
  LET call == calls[c]
  IN IF ~r.rejected
     THEN Effect(MapReplace(call.closure, call.taskId, r.value), error,
                 saveToLocalStorage(MapReplace(call.closure, call.taskId, r.value)),
                 FALSE, "resolved")
     ELSE Effect(tasks, error,
                 saveToLocalStorage(MapReplace(call.closure, call.taskId, call.optimistic)),
                 FALSE, "resolved")

\* updateTask after its await
updateTaskSettle(c, r) ==
  LET call == calls[c]
  IN IF ~r.rejected
     THEN Effect(MapReplace(tasks, call.taskId, r.value), error,
                 saveToLocalStorage(MapReplace(call.closure, call.taskId, r.value)),
                 FALSE, "resolved")
     ELSE Effect(tasks, error,
                 saveToLocalStorage(MapReplace(call.closure, call.taskId, call.optimistic)),
                 FALSE, "resolved")

\* variant of toggleTaskComplete that marks the task completed whatever it was
toggleTaskCompleteSets(taskId) ==
  LET task == FindTask(tasks, taskId)
  IN IF IsUndefined(task)
     THEN ~crashed /\ calls # <<>> /\ UNCHANGED vars
     ELSE updateTaskCall(taskId, [completed |-> TRUE], TRUE)

\* toggleTaskComplete: nothing happens when the id names no task
toggleTaskComplete(taskId) ==
  LET task == FindTask(tasks, taskId)
  IN IF IsUndefined(task)
     THEN ~crashed /\ calls # <<>> /\ UNCHANGED vars
     ELSE updateTaskCall(taskId, [completed |-> ~(Has(task, "completed") /\ task.completed)], TRUE)

\* deleteTask up to its await
deleteTaskCall(taskId) ==
  /\ ~crashed
  /\ calls # <<>>
  /\ Len(calls) < MaxCalls
  /\ loading' = TRUE
  /\ error' = NoError
  /\ tasks' = FilterOut(tasks, taskId)
  /\ calls' = Invoke([NewCall("delete") EXCEPT !.closure = tasks, !.taskId = taskId])
  /\ UNCHANGED <<localStorage, server, nextId, now, crashed>>

\* variant of deleteTaskSettle that saves the captured tasks with the deleted one
deleteTaskSettleSavesAll(c, r) ==
  LET call == calls[c]
  IN IF ~r.rejected
     THEN Effect(tasks, error, saveToLocalStorage(call.closure), FALSE, "resolved")
     ELSE Effect(call.closure, r.value, localStorage, FALSE, "rejected")

\* deleteTask after its await
deleteTaskSettle(c, r) ==
  LET call == calls[c]
  IN IF ~r.rejected
     THEN Effect(tasks, error, saveToLocalStorage(FilterOut(call.closure, call.taskId)),
                 FALSE, "resolved")
     ELSE Effect(call.closure, r.value, localStorage, FALSE, "rejected")

\* reorderTasks up to its await
reorderTasksCall(newTaskOrder) ==
  /\ ~crashed
  /\ calls # <<>>
  /\ Len(calls) < MaxCalls
  /\ loading' = TRUE
  /\ error' = NoError
  /\ tasks' = newTaskOrder
  /\ calls' = Invoke([NewCall("reorder") EXCEPT !.closure = tasks,
                                !.newOrder = newTaskOrder,
                                !.body = [taskIds |-> Ids(newTaskOrder), updatedAt |-> IsoV(now)]])
  /\ UNCHANGED <<localStorage, server, nextId, now, crashed>>

\* variant of reorderTasksSettle whose catch block does not restore the order
reorderTasksSettleKeeps(c, r) ==
  IF ~r.rejected
  THEN Effect(r.value, error, saveToLocalStorage(r.value), FALSE, "resolved")
  ELSE Effect(tasks, r.value, localStorage, FALSE, "rejected")

\* reorderTasks after its await
reorderTasksSettle(c, r) ==
  LET call == calls[c]
  IN IF ~r.rejected
     THEN Effect(r.value, error, saveToLocalStorage(r.value), FALSE, "resolved")
     ELSE Effect(call.closure, r.value, localStorage, FALSE, "rejected")

\* variant of subtaskCall without the setError(null) at its start
subtaskCallKeepsError(op, taskId, subId, body) ==
  /\ ~crashed
  /\ calls # <<>>
  /\ Len(calls) < MaxCalls
  /\ loading' = TRUE
  /\ calls' = Invoke([NewCall(op) EXCEPT !.taskId = taskId, !.subId = subId,
                                !.body = body])
  /\ UNCHANGED <<tasks, error, localStorage, server, nextId, now, crashed>>

\* addSubtask / updateSubtask / deleteSubtask up to their await
subtaskCall(op, taskId, subId, body) ==
  /\ ~crashed
  /\ calls # <<>>
  /\ Len(calls) < MaxCalls
  /\ loading' = TRUE
  /\ error' = NoError
  /\ calls' = Invoke([NewCall(op) EXCEPT !.taskId = taskId, !.subId = subId,
                                !.body = body])
  /\ UNCHANGED <<tasks, localStorage, server, nextId, now, crashed>>

addSubtask(taskId, subtaskTitle) ==
  subtaskCall("addSubtask", taskId, NoId, addSubtaskBody([title |-> subtaskTitle], now))
updateSubtask(taskId, subtaskId, updateData) ==
  subtaskCall("updateSubtask", taskId, subtaskId, JsonObj(updateData))
deleteSubtask(taskId, subtaskId) ==
  subtaskCall("deleteSubtask", taskId, subtaskId, EmptyObj)

\* the updater reads task.subtasks of the task it matches: a TypeError, thrown
\* while rendering, when that task has no subtasks property
SubtasksMissing(ts, taskId) ==
  \E i \in 1..Len(ts) : IdOf(ts[i]) = taskId /\ ~Has(ts[i], "subtasks")
\* prev.map(task => task.id === taskId ? { ...task, subtasks: F(task.subtasks) } : task)
MapSubtasks(F(_), ts, taskId) ==
  [i \in 1..Len(ts) |->
     IF IdOf(ts[i]) = taskId THEN Spread(ts[i], [subtasks |-> F(ts[i].subtasks)]) ELSE ts[i]]

UpdaterThrew == [Effect(tasks, error, localStorage, FALSE, "resolved") EXCEPT !.crashed = TRUE]

\* variant of subtaskSettle whose catch blocks rethrow without setError(err)
subtaskSettleSilent(c, r) ==
  LET call == calls[c]
      Add(subs) == Append(subs, r.value)
      Upd(subs) == MapReplace(subs, call.subId, r.value)
      Del(subs) == FilterOut(subs, call.subId)
  IN IF r.rejected THEN Effect(tasks, error, localStorage, FALSE, "rejected")
     ELSE IF SubtasksMissing(tasks, call.taskId) THEN UpdaterThrew
     ELSE Effect(CASE call.op = "addSubtask" -> MapSubtasks(Add, tasks, call.taskId)
                   [] call.op = "updateSubtask" -> MapSubtasks(Upd, tasks, call.taskId)
                   [] OTHER -> MapSubtasks(Del, tasks, call.taskId),
                 error, localStorage, FALSE, "resolved")

\* variant of subtaskSettle that also stamps the parent task with a new updatedAt
subtaskSettleTouchesParent(c, r) ==
  LET call == calls[c]
      Add(subs) == Append(subs, r.value)
      Upd(subs) == MapReplace(subs, call.subId, r.value)
      Del(subs) == FilterOut(subs, call.subId)
      Touch(t) == IF IdOf(t) = call.taskId THEN Spread(t, [updatedAt |-> DateV(now)]) ELSE t
  IN IF r.rejected THEN Effect(tasks, r.value, localStorage, FALSE, "rejected")
     ELSE IF SubtasksMissing(tasks, call.taskId) THEN UpdaterThrew
     ELSE Effect(SeqMap(Touch,
                   CASE call.op = "addSubtask" -> MapSubtasks(Add, tasks, call.taskId)
                     [] call.op = "updateSubtask" -> MapSubtasks(Upd, tasks, call.taskId)
                     [] OTHER -> MapSubtasks(Del, tasks, call.taskId)),
                 error, localStorage, FALSE, "resolved")

\* the three subtask operations after their await
subtaskSettle(c, r) ==
  LET call == calls[c]
      Add(subs) == Append(subs, r.value)
      Upd(subs) == MapReplace(subs, call.subId, r.value)
      Del(subs) == FilterOut(subs, call.subId)
  IN IF r.rejected THEN Effect(tasks, r.value, localStorage, FALSE, "rejected")
     ELSE IF SubtasksMissing(tasks, call.taskId) THEN UpdaterThrew
     ELSE Effect(CASE call.op = "addSubtask" -> MapSubtasks(Add, tasks, call.taskId)
                   [] call.op = "updateSubtask" -> MapSubtasks(Upd, tasks, call.taskId)
                   [] OTHER -> MapSubtasks(Del, tasks, call.taskId),
                 error, localStorage, FALSE, "resolved")

\* clearError
clearError ==
  /\ ~crashed
  /\ calls # <<>>
  /\ error' = NoError
  /\ UNCHANGED <<tasks, loading, localStorage, calls, server, nextId, now, crashed>>

\* ---- the requests in flight
\* what the backend answers to the request call c awaits, and what it becomes
ServerAnswer(c) ==
  LET call == calls[c]
  IN CASE call.op = "load" -> ServerList
       [] call.op = "create" -> ServerCreate(call.body)
       [] call.op = "update" -> ServerUpdate(call.taskId, call.body)
       [] call.op = "delete" -> ServerDelete(call.taskId)
       [] call.op = "reorder" -> ServerReorder(call.body.taskIds)
       [] call.op = "addSubtask" -> ServerAddSubtask(call.taskId, call.body)
       [] call.op = "updateSubtask" -> ServerUpdateSubtask(call.taskId, call.subId, call.body)
       [] OTHER -> ServerDeleteSubtask(call.taskId, call.subId)

\* the backend handles the request of call c
ServerHandle(c) ==
  /\ ~crashed
  /\ calls[c].pc = "sent"
  /\ server' = ServerAnswer(c).server
  /\ nextId' = ServerAnswer(c).nextId
  /\ calls' = [calls EXCEPT ![c].pc = "answered", ![c].http = ServerAnswer(c).http]
  /\ UNCHANGED <<tasks, loading, error, localStorage, now, crashed>>

\* the promise todoApi returns to the store, given what axios got
ApiResult(c, http) ==
  LET call == calls[c]
  IN CASE call.op = "load" -> getTasks(http, now)
       [] call.op = "create" -> createTask(call.data, http, now)
       [] call.op = "update" -> updateTask(call.taskId, call.data, http, now)
       [] call.op = "delete" -> deleteTask(http)
       [] call.op = "reorder" -> reorderTasks(http, now, c)
       [] call.op = "deleteSubtask" -> deleteSubtaskResult(http, c)
       [] OTHER -> subtaskResult(http, c)

\* the store's code after the await, by operation
StoreSettle(c, r) ==
  CASE calls[c].op = "load" -> loadTasksSettle(c, r)
    [] calls[c].op = "create" -> addTaskSettle(c, r)
    [] calls[c].op = "update" -> updateTaskSettle(c, r)
    [] calls[c].op = "delete" -> deleteTaskSettle(c, r)
    [] calls[c].op = "reorder" -> reorderTasksSettle(c, r)
    [] OTHER -> subtaskSettle(c, r)

\* a settled call: what the store no longer holds of it is dropped
Settled(call, http, outcome) ==
  [NewCall(call.op) EXCEPT !.pc = "done", !.attempt = call.attempt, !.taskId = call.taskId,
                           !.subId = call.subId, !.tempId = call.tempId, !.data = call.data,
                           !.original = call.original, !.toggle = call.toggle,
                           !.overlap = call.overlap,
                           !.http = [ok |-> http.ok, data |-> <<>>],
                           !.outcome = outcome]

\* the awaited request of call c completes with `http` and the call runs on: to
\* its end, or (addTask's catch block) to a second request
Continue(c, http) ==
  LET e == StoreSettle(c, ApiResult(c, http))
  IN /\ tasks' = e.tasks
     /\ error' = e.error
     /\ localStorage' = e.localStorage
     /\ loading' = e.loading
     /\ crashed' = e.crashed
     /\ calls' = IF e.outcome = "pending"
                 THEN [calls EXCEPT ![c].pc = "sent", ![c].attempt = 2, ![c].http = HttpFail]
                 ELSE [calls EXCEPT ![c] = Settled(calls[c], http, e.outcome)]
     /\ UNCHANGED <<server, nextId, now>>

\* the response of the backend reaches the client
Respond(c) ==
  /\ ~crashed
  /\ calls[c].pc = "answered"
  /\ Continue(c, calls[c].http)

\* the request fails in transport: it never reached the backend, or its
\* response was lost or came after the 10 s timeout
TransportFail(c) ==
  /\ ~crashed
  /\ calls[c].pc \in {"sent", "answered"}
  /\ Continue(c, HttpFail)

\* a millisecond passes
Tick ==
  /\ ~crashed
  /\ now < Epoch + MaxClock
  /\ now' = now + 1
  /\ UNCHANGED <<tasks, loading, error, localStorage, calls, server, nextId, crashed>>

\* no visible list has been computed since the criteria last changed
NotComputed == [by |-> "none", list |-> <<>>]
\* the empty string as the value of a date input; 'YYYY-MM-DD' is <<"ymd", d>>,
\* d the number of the day since 1970-01-01
NoDateText == <<"", 0>>
DateText(d) == <<"ymd", d>>
\* the form data TaskForm starts with when it is opened for a new task
EmptyForm ==
  [title |-> <<>>, description |-> <<>>, priority |-> "medium", category |-> "",
   tags |-> <<>>, dueDate |-> NoDateText]

\* ---- what the user of the hook passes in
Min(a, b) == IF a < b THEN a ELSE b
\* the data the task form submits: trimmed title and description, a Date or null
TaskInputs ==
  { [title |-> "Buy milk", description |-> "2 l", priority |-> "medium", category |-> "Home",
     tags |-> <<"shop">>, dueDate |-> DateV(Epoch + DayMs)] }
EditInputs ==
  { [title |-> "Edited", description |-> "", priority |-> "low", category |-> "",
     tags |-> <<"later">>, dueDate |-> NullV] }
\* the ids the user can name: of the tasks shown first, and the temporary ids
\* handed out earlier (a view may still hold one)
ArgIds ==
  {IdOf(tasks[i]) : i \in 1..Min(Len(tasks), MaxPos)}
    \cup ({calls[c].tempId : c \in 1..Len(calls)} \ {NoId})
SubtaskIds(taskId) ==
  LET task == FindTask(tasks, taskId)
  IN IF Has(task, "subtasks")
     THEN {IdOf(task.subtasks[k]) : k \in 1..Min(Len(task.subtasks), MaxPos)}
     ELSE {}
\* the list after a drag from position i to position j (TaskList.handleDragEnd)
Move(s, i, j) ==
  LET rest == RemoveAt(s, i)
  IN SubSeq(rest, 1, j - 1) \o <<s[i]>> \o SubSeq(rest, j, Len(rest))
ReorderInputs ==
  {Move(tasks, i, j) : i, j \in 1..Min(Len(tasks), MaxPos + 1)} \ {tasks}

Init ==
  /\ tasks = <<>>
  /\ loading = FALSE
  /\ error = NoError
  /\ localStorage = NoItem
  /\ calls = <<>>
  /\ server = SeedTasks
  /\ nextId = Len(SeedTasks) + 1
  /\ now = Epoch
  /\ crashed = FALSE
  /\ searchQuery = <<>>
  /\ filters = [status |-> "all", priority |-> "", category |-> "", tags |-> <<>>]
  /\ sortConfig = [field |-> "createdAt", direction |-> "desc"]
  /\ selectedCategory = "all"
  /\ visible = NotComputed
  /\ apiLog = <<>>
  /\ formData = EmptyForm
  /\ errors = EmptyObj
  /\ submitted = <<>>

\* the operations of the store and the steps of its requests; none of them
\* touches the state of the projection
Next ==
  \/ /\ Mount
     /\ UNCHANGED <<viewVars, apiLog, formVars>>
  \/ /\ refreshTasks
     /\ UNCHANGED <<viewVars, apiLog, formVars>>
  \/ /\ \E taskData \in TaskInputs : addTask(taskData)
     /\ UNCHANGED <<viewVars, apiLog, formVars>>
  \/ /\ \E taskId \in ArgIds, updateData \in EditInputs : updateTaskCall(taskId, updateData, FALSE)
     /\ UNCHANGED <<viewVars, apiLog, formVars>>
  \/ /\ \E taskId \in ArgIds : toggleTaskComplete(taskId)
     /\ UNCHANGED <<viewVars, apiLog, formVars>>
  \/ /\ \E taskId \in ArgIds : deleteTaskCall(taskId)
     /\ UNCHANGED <<viewVars, apiLog, formVars>>
  \/ /\ \E newTaskOrder \in ReorderInputs : reorderTasksCall(newTaskOrder)
     /\ UNCHANGED <<viewVars, apiLog, formVars>>
  \/ /\ \E taskId \in ArgIds : addSubtask(taskId, "Step")
     /\ UNCHANGED <<viewVars, apiLog, formVars>>
  \/ /\ \E taskId \in ArgIds : \E subtaskId \in SubtaskIds(taskId) :
           updateSubtask(taskId, subtaskId, [completed |-> TRUE])
     /\ UNCHANGED <<viewVars, apiLog, formVars>>
  \/ /\ \E taskId \in ArgIds : \E subtaskId \in SubtaskIds(taskId) : deleteSubtask(taskId, subtaskId)
     /\ UNCHANGED <<viewVars, apiLog, formVars>>
  \/ /\ clearError
     /\ UNCHANGED <<viewVars, apiLog, formVars>>
  \/ /\ \E c \in 1..Len(calls) : ServerHandle(c)
     /\ UNCHANGED <<viewVars, apiLog, formVars>>
  \/ /\ \E c \in 1..Len(calls) : Respond(c)
     /\ UNCHANGED <<viewVars, apiLog, formVars>>
  \/ /\ \E c \in 1..Len(calls) : TransportFail(c)
     /\ UNCHANGED <<viewVars, apiLog, formVars>>
  \/ /\ Tick
     /\ UNCHANGED <<viewVars, apiLog, formVars>>

Spec == Init /\ [][Next]_vars

\* the request of call c ends: its response arrives or it fails (at the latest
\* when the client's 10 s timeout expires)
RemoteEnds(c) ==
  /\ c <= Len(calls)
  /\ Respond(c) \/ TransportFail(c)
  /\ UNCHANGED <<viewVars, apiLog, formVars>>

\* the number of store calls followed until they settle
MaxLiveCalls == 2

\* the hook may be called once more
Room == Len(calls) < MaxLiveCalls

\* the steps of the store for a bounded number of calls
NextLive ==
  \/ /\ Room /\ Mount
     /\ UNCHANGED <<viewVars, apiLog, formVars>>
  \/ /\ Room /\ refreshTasks
     /\ UNCHANGED <<viewVars, apiLog, formVars>>
  \/ /\ Room /\ \E taskData \in TaskInputs : addTask(taskData)
     /\ UNCHANGED <<viewVars, apiLog, formVars>>
  \/ /\ Room /\ \E taskId \in ArgIds, updateData \in EditInputs : updateTaskCall(taskId, updateData, FALSE)
     /\ UNCHANGED <<viewVars, apiLog, formVars>>
  \/ /\ Room /\ \E taskId \in ArgIds : toggleTaskComplete(taskId)
     /\ UNCHANGED <<viewVars, apiLog, formVars>>
  \/ /\ Room /\ \E taskId \in ArgIds : deleteTaskCall(taskId)
     /\ UNCHANGED <<viewVars, apiLog, formVars>>
  \/ /\ Room /\ \E newTaskOrder \in ReorderInputs : reorderTasksCall(newTaskOrder)
     /\ UNCHANGED <<viewVars, apiLog, formVars>>
  \/ /\ Room /\ \E taskId \in ArgIds : addSubtask(taskId, "Step")
     /\ UNCHANGED <<viewVars, apiLog, formVars>>
  \/ /\ Room /\ \E taskId \in ArgIds : \E subtaskId \in SubtaskIds(taskId) :
                 updateSubtask(taskId, subtaskId, [completed |-> TRUE])
     /\ UNCHANGED <<viewVars, apiLog, formVars>>
  \/ /\ Room /\ \E taskId \in ArgIds : \E subtaskId \in SubtaskIds(taskId) : deleteSubtask(taskId, subtaskId)
     /\ UNCHANGED <<viewVars, apiLog, formVars>>
  \/ /\ clearError
     /\ UNCHANGED <<viewVars, apiLog, formVars>>
  \/ /\ \E c \in 1..Len(calls) : ServerHandle(c)
     /\ UNCHANGED <<viewVars, apiLog, formVars>>
  \/ /\ \E c \in 1..Len(calls) : Respond(c)
     /\ UNCHANGED <<viewVars, apiLog, formVars>>
  \/ /\ \E c \in 1..Len(calls) : TransportFail(c)
     /\ UNCHANGED <<viewVars, apiLog, formVars>>
  \/ /\ Tick
     /\ UNCHANGED <<viewVars, apiLog, formVars>>

\* the store when every request that is awaited ends
SpecLive == Init /\ [][NextLive]_vars /\ \A c \in 1..MaxLiveCalls : WF_vars(RemoteEnds(c))

\* ---- the filter / sort projection
\* A string that is searched is the sequence of its UTF-16 code units.
\* String.prototype.toLowerCase (for the ASCII letters)
toLowerCase(str) == [i \in 1..Len(str) |-> IF str[i] >= 65 /\ str[i] <= 90 THEN str[i] + 32 ELSE str[i]]
\* String.prototype.includes
includes(str, q) == \E i \in 0..(Len(str) - Len(q)) : SubSeq(str, i + 1, i + Len(q)) = q
\* String.prototype.trim() is not the empty string: some code unit is not a space
NotBlank(str) == \E i \in 1..Len(str) : str[i] # 32
\* str1 < str2 for two strings: by code units, a proper prefix first
StrLess(a, b) ==
  \E i \in 1..(Len(b)) :
    /\ \A j \in 1..(i - 1) : j <= Len(a) /\ a[j] = b[j]
    /\ (i > Len(a) \/ (i <= Len(a) /\ a[i] < b[i]))
    /\ i - 1 <= Len(a)

\* variant of MatchesSearch that does not look at the tags
MatchesSearchNoTags(task, query) ==
  \/ includes(toLowerCase(task.title), query)
  \/ (Has(task, "description") /\ includes(toLowerCase(task.description), query))

\* the search test both projections apply to a task, `query` already lowercased
MatchesSearch(task, query) ==
  \/ includes(toLowerCase(task.title), query)
  \/ (Has(task, "description") /\ includes(toLowerCase(task.description), query))
  \/ \E k \in 1..Len(task.tags) : includes(toLowerCase(task.tags[k]), query)

\* filters.f is truthy, for a string-valued criterion
Truthy(o, f) == Has(o, f) /\ o[f] # ""
IsCompleted(task) == Has(task, "completed") /\ task.completed

\* useTodoManager.getFilteredTasks: the tests of its filter steps
HookKeeps(task, q, f) ==
  /\ NotBlank(q) => MatchesSearch(task, toLowerCase(q))
  /\ (Truthy(f, "status") /\ f.status # "all")
       => CASE f.status = "completed" -> IsCompleted(task)
            [] f.status = "pending" -> ~IsCompleted(task)
            [] OTHER -> TRUE
  /\ Truthy(f, "priority") => task.priority = f.priority
  /\ Truthy(f, "category") => task.category = f.category
  /\ (Has(f, "tags") /\ Len(f.tags) > 0)
       => \E k \in 1..Len(f.tags) : \E m \in 1..Len(task.tags) : task.tags[m] = f.tags[k]

\* variant of HomeKeeps without the priority filter step
HomeKeepsAnyPriority(task, q, cat, f) ==
  /\ Len(q) > 0 => MatchesSearch(task, toLowerCase(q))
  /\ cat # "all"
       => CASE cat = "completed" -> IsCompleted(task)
            [] cat = "pending" -> ~IsCompleted(task)
            [] cat = "high-priority" -> task.priority = "high" /\ ~IsCompleted(task)
            [] OTHER -> task.category = cat
  /\ (Truthy(f, "status") /\ f.status # "all")
       => IF f.status = "completed" THEN IsCompleted(task) ELSE ~IsCompleted(task)

\* Home.getFilteredTasks: the tests of its filter steps
HomeKeeps(task, q, cat, f) ==
  /\ Len(q) > 0 => MatchesSearch(task, toLowerCase(q))
  /\ cat # "all"
       => CASE cat = "completed" -> IsCompleted(task)
            [] cat = "pending" -> ~IsCompleted(task)
            [] cat = "high-priority" -> task.priority = "high" /\ ~IsCompleted(task)
            [] OTHER -> task.category = cat
  /\ Truthy(f, "priority") => task.priority = f.priority
  /\ (Truthy(f, "status") /\ f.status # "all")
       => IF f.status = "completed" THEN IsCompleted(task) ELSE ~IsCompleted(task)

\* the value the comparator reads for a date field: new Date(v), new Date(0) when
\* the property is missing or null
SortDate(task, field) == IF TruthyDate(task, field) THEN NewDate(task[field]) ELSE DateV(0)
\* variant of PriorityOrdinal with the ordinals of low and medium exchanged
PriorityOrdinalSwapped(task) ==
  IF ~Has(task, "priority") THEN 0
  ELSE CASE task.priority = "high" -> 3
         [] task.priority = "medium" -> 1
         [] task.priority = "low" -> 2
         [] OTHER -> 0

\* priorityOrder[v] || 0
PriorityOrdinal(task) ==
  IF ~Has(task, "priority") THEN 0
  ELSE CASE task.priority = "high" -> 3
         [] task.priority = "medium" -> 2
         [] task.priority = "low" -> 1
         [] OTHER -> 0
\* aValue < bValue in the comparator
ValueLess(a, b, field) ==
  CASE field \in {"dueDate", "createdAt"} ->
         /\ SortDate(a, field)[1] = "Date" /\ SortDate(b, field)[1] = "Date"
         /\ SortDate(a, field)[2] < SortDate(b, field)[2]
    [] field = "priority" -> PriorityOrdinal(a) < PriorityOrdinal(b)
    [] field = "title" -> Has(a, field) /\ Has(b, field) /\ StrLess(a[field], b[field])
    [] field = "order" -> Has(a, field) /\ Has(b, field) /\ a[field] < b[field]
    [] OTHER -> FALSE
\* variant of compare with the direction test the wrong way round
compareInverted(a, b, sc) ==
  IF ValueLess(a, b, sc.field) THEN (IF sc.direction = "asc" THEN 1 ELSE -1)
  ELSE IF ValueLess(b, a, sc.field) THEN (IF sc.direction = "asc" THEN -1 ELSE 1)
  ELSE 0

\* the comparator passed to sort
compare(a, b, sc) ==
  IF ValueLess(a, b, sc.field) THEN (IF sc.direction = "asc" THEN -1 ELSE 1)
  ELSE IF ValueLess(b, a, sc.field) THEN (IF sc.direction = "asc" THEN 1 ELSE -1)
  ELSE 0
\* Array.prototype.sort with that comparator: a stable sort, so each element goes
\* after the elements that compare lower and the equal ones that stood before it
sortTasks(ts, sc) ==
  LET Before(m, k) == \/ compare(ts[m], ts[k], sc) < 0
                      \/ compare(ts[m], ts[k], sc) = 0 /\ m < k
      rank(k) == 1 + Cardinality({m \in 1..Len(ts) : Before(m, k)})
  IN [i \in 1..Len(ts) |-> ts[CHOOSE k \in 1..Len(ts) : rank(k) = i]]

\* useTodoManager.getFilteredTasks: filters a copy of the collection, sorts it
HookFiltered(ts, q, f) == LET Keep(t) == HookKeeps(t, q, f) IN SeqFilter(Keep, ts)
getFilteredTasks ==
  /\ visible' = [by |-> "hook",
                 list |-> sortTasks(HookFiltered(tasks, searchQuery, filters), sortConfig)]
  /\ UNCHANGED <<storeVars, searchQuery, filters, sortConfig, selectedCategory, apiLog, formVars>>

\* Home.getFilteredTasks: some filter step ran, so the list is a new array
HomeFilterRan(q, cat, f) ==
  \/ Len(q) > 0
  \/ cat # "all"
  \/ Truthy(f, "priority")
  \/ Truthy(f, "status") /\ f.status # "all"
HomeFiltered(ts, q, cat, f) == LET Keep(t) == HomeKeeps(t, q, cat, f) IN SeqFilter(Keep, ts)
\* Home.getFilteredTasks, called while Home renders: `filteredTasks` starts as the
\* store's array itself, and sort() sorts the array it is called on
HomeGetFilteredTasks ==
  LET filtered == HomeFiltered(tasks, searchQuery, selectedCategory, filters)
      sorted == IF Truthy(sortConfig, "field") THEN sortTasks(filtered, sortConfig) ELSE filtered
  IN /\ visible' = [by |-> "home", list |-> sorted]
     /\ tasks' = IF HomeFilterRan(searchQuery, selectedCategory, filters) THEN tasks ELSE sorted
     /\ UNCHANGED <<loading, error, localStorage, calls, server, nextId, now, crashed,
                    searchQuery, filters, sortConfig, selectedCategory, apiLog, formVars>>

\* the setters the hook and Home hand to the controls
setSearchQuery(q) ==
  /\ searchQuery' = q /\ visible' = NotComputed
  /\ UNCHANGED <<storeVars, filters, sortConfig, selectedCategory, apiLog, formVars>>
setFilters(f) ==
  /\ filters' = f /\ visible' = NotComputed
  /\ UNCHANGED <<storeVars, searchQuery, sortConfig, selectedCategory, apiLog, formVars>>
setSortConfig(sc) ==
  /\ sortConfig' = sc /\ visible' = NotComputed
  /\ UNCHANGED <<storeVars, searchQuery, filters, selectedCategory, apiLog, formVars>>
setSelectedCategory(cat) ==
  /\ selectedCategory' = cat /\ visible' = NotComputed
  /\ UNCHANGED <<storeVars, searchQuery, filters, sortConfig, apiLog, formVars>>

\* ---- the projection on its own: collections and criteria to apply it to
\* tasks in the collection the projection is applied to
MaxTasks == 3
\* the tasks the collections are made of, as the backend or the form delivers them
ViewPool ==
  { \* "Milk", tagged "shop"
    [id |-> <<"srv", 1>>, title |-> <<77, 105, 108, 107>>, description |-> <<>>,
     completed |-> FALSE, priority |-> "high", category |-> "Home",
     tags |-> <<<<115, 104, 111, 112>>>>, dueDate |-> NullV,
     createdAt |-> DateV(Epoch - 3 * DayMs), order |-> 2],
    \* "Report", described as "Tax", tagged "Job"
    [id |-> <<"srv", 2>>, title |-> <<82, 101, 112, 111, 114, 116>>, description |-> <<84, 97, 120>>,
     completed |-> TRUE, priority |-> "low", category |-> "Work",
     tags |-> <<<<74, 111, 98>>>>, dueDate |-> DateV(Epoch + 2 * DayMs),
     createdAt |-> DateV(Epoch - DayMs), order |-> 0],
    \* "milk", no description, no tag, a priority the form does not offer
    [id |-> <<"srv", 3>>, title |-> <<109, 105, 108, 107>>,
     completed |-> FALSE, priority |-> "urgent", category |-> "Home",
     tags |-> <<>>, dueDate |-> DateV(Epoch + DayMs),
     createdAt |-> DateV(Epoch - 2 * DayMs), order |-> 1],
    \* "Tax", tagged "job" and "Shop"
    [id |-> <<"srv", 4>>, title |-> <<84, 97, 120>>, description |-> <<>>,
     completed |-> FALSE, priority |-> "medium", category |-> "Work",
     tags |-> <<<<106, 111, 98>>, <<83, 104, 111, 112>>>>, dueDate |-> DateV(Epoch + DayMs),
     createdAt |-> DateV(Epoch - 2 * DayMs), order |-> 3],
    \* "Pay", completed, no due date
    [id |-> <<"srv", 5>>, title |-> <<80, 97, 121>>, description |-> <<>>,
     completed |-> TRUE, priority |-> "high", category |-> "Home",
     tags |-> <<>>, dueDate |-> NullV,
     createdAt |-> DateV(Epoch), order |-> 4] }
\* the collections: up to MaxTasks different tasks of the pool, in any order
ViewCollections ==
  UNION { {ts \in [1..n -> ViewPool] : \A i, j \in 1..n : ts[i] = ts[j] => i = j} : n \in 0..MaxTasks }
\* search strings: blank, and "SHOP", which is in no title and no description
SearchInputs == { <<>>, <<32>>, <<83, 72, 79, 80>> }
FilterInputs ==
  { [status |-> "all", priority |-> "", category |-> "", tags |-> <<>>],
    [status |-> "all", priority |-> "high", category |-> "", tags |-> <<>>],
    [status |-> "completed", priority |-> "", category |-> "", tags |-> <<>>],
    [status |-> "all", priority |-> "", category |-> "Work", tags |-> <<>>],
    [status |-> "all", priority |-> "", category |-> "", tags |-> <<<<115, 104, 111, 112>>>>] }
SortFields == {"title", "createdAt", "dueDate", "priority", "order"}
SortInputs == [field : SortFields, direction : {"asc", "desc"}]
CategoryInputs == {"all", "high-priority", "Work"}

InitView ==
  /\ tasks \in ViewCollections
  /\ loading = FALSE
  /\ error = NoError
  /\ localStorage = NoItem
  /\ calls = <<>>
  /\ server = SeedTasks
  /\ nextId = Len(SeedTasks) + 1
  /\ now = Epoch
  /\ crashed = FALSE
  /\ searchQuery = <<>>
  /\ filters = [status |-> "all", priority |-> "", category |-> "", tags |-> <<>>]
  /\ sortConfig = [field |-> "createdAt", direction |-> "desc"]
  /\ selectedCategory = "all"
  /\ visible = NotComputed
  /\ apiLog = <<>>
  /\ formData = EmptyForm
  /\ errors = EmptyObj
  /\ submitted = <<>>

NextView ==
  \/ \E q \in SearchInputs : setSearchQuery(q)
  \/ \E f \in FilterInputs : setFilters(f)
  \/ \E sc \in SortInputs : setSortConfig(sc)
  \/ \E cat \in CategoryInputs : setSelectedCategory(cat)
  \/ getFilteredTasks
  \/ HomeGetFilteredTasks

\* the projection applied to a collection that no store operation changes meanwhile
SpecView == InitView /\ [][NextView]_vars

\* ---- todoApi on its own: each of its operations called directly
\* direct calls in one behaviour
MaxApiCalls == 2
ListOps == {"getTasks", "reorderTasks", "searchTasks", "getTasksByCategory", "getTasksByPriority"}
TaskOps == {"createTask", "updateTask"}
SubtaskApiOps == {"addSubtask", "updateSubtask"}
ApiOps == ListOps \cup TaskOps \cup SubtaskApiOps \cup {"deleteTask", "deleteSubtask"}
\* what axios can get for a request of the operation: a failure, or a response
\* with the data the backend sends for it
HttpInputs(op) ==
  {HttpFail} \cup
    (IF op \in ListOps THEN {HttpOk(SeedTasks), HttpOk(<<>>)}
     ELSE IF op \in TaskOps THEN {HttpOk(SeedTasks[1])}
     ELSE IF op \in SubtaskApiOps THEN {HttpOk(SeedTasks[1].subtasks[1])}
     ELSE {HttpOk(EmptyObj)})
\* the arguments of the direct calls
ApiTaskData == CHOOSE d \in TaskInputs : TRUE
ApiPatch == [completed |-> TRUE]
ApiTaskId == <<"srv", 1>>
\* the promise the operation returns, given what axios got
ApiReturn(op, http, c) ==
  CASE op = "getTasks" -> getTasks(http, now)
    [] op = "createTask" -> createTask(ApiTaskData, http, now)
    [] op = "updateTask" -> updateTask(ApiTaskId, ApiPatch, http, now)
    [] op = "deleteTask" -> deleteTask(http)
    [] op = "reorderTasks" -> reorderTasks(http, now, c)
    [] op = "searchTasks" -> searchTasks(http, now, c)
    [] op = "getTasksByCategory" -> getTasksByCategory(http, now, c)
    [] op = "getTasksByPriority" -> getTasksByPriority(http, now, c)
    [] op = "deleteSubtask" -> deleteSubtaskResult(http, c)
    [] OTHER -> subtaskResult(http, c)
\* one direct call of an operation of todoApi, its request ending as `http`
ApiCall(op, http) ==
  /\ Len(apiLog) < MaxApiCalls
  /\ apiLog' = Append(apiLog, [op |-> op, ok |-> http.ok,
                                 returned |-> ApiReturn(op, http, Len(apiLog) + 1)])
  /\ UNCHANGED <<storeVars, viewVars, formVars>>

NextApi == \E op \in ApiOps : \E http \in HttpInputs(op) : ApiCall(op, http)

SpecApi == Init /\ [][NextApi]_vars

\* ---- TaskForm, opened by Home for a new task
\* a string of n code units u
Rep(n, u) == [i \in 1..n |-> u]
\* String.prototype.trim (for the space)
trim(str) ==
  IF ~NotBlank(str) THEN <<>>
  ELSE LET first == CHOOSE i \in 1..Len(str) : str[i] # 32 /\ \A j \in 1..(i - 1) : str[j] = 32
           last == CHOOSE i \in 1..Len(str) : str[i] # 32 /\ \A j \in (i + 1)..Len(str) : str[j] = 32
       IN SubSeq(str, first, last)
\* new Date('YYYY-MM-DD'): midnight UTC of that day
DateOfText(txt) == DateV(txt[2] * DayMs)
\* today = new Date(); today.setHours(0, 0, 0, 0): the start of the current day in
\* local time, `offset` being the milliseconds local time is ahead of UTC
StartOfLocalDay(t, offset) == ((t + offset) \div DayMs) * DayMs - offset
\* the offsets of the environments considered: UTC-5, UTC, UTC+5:30
TimezoneOffsets == {0 - 5 * 60 * 60 * 1000, 0, 11 * 30 * 60 * 1000}

\* handleInputChange: the field is set, and its message, if any, is blanked
handleInputChange(name, value) ==
  /\ ~crashed
  /\ calls # <<>>
  /\ formData' = [formData EXCEPT ![name] = value]
  /\ errors' = IF Has(errors, name) /\ errors[name] # "" THEN [errors EXCEPT ![name] = ""] ELSE errors
  /\ UNCHANGED <<storeVars, viewVars, apiLog, submitted>>

\* variant of validateForm without the test of the due date
validateFormAnyDueDate(fd, t, offset) ==
  LET titleErrors ==
        IF Len(fd.title) > 100 THEN [title |-> "Title must be less than 100 characters"]
        ELSE IF trim(fd.title) = <<>> THEN [title |-> "Title is required"]
        ELSE EmptyObj
      descriptionErrors ==
        IF Len(fd.description) > 500
        THEN [description |-> "Description must be less than 500 characters"]
        ELSE EmptyObj
  IN Spread(titleErrors, descriptionErrors)

\* validateForm: newErrors, an object with a message for each field that fails
validateForm(fd, t, offset) ==
  LET titleErrors ==
        IF Len(fd.title) > 100 THEN [title |-> "Title must be less than 100 characters"]
        ELSE IF trim(fd.title) = <<>> THEN [title |-> "Title is required"]
        ELSE EmptyObj
      descriptionErrors ==
        IF Len(fd.description) > 500
        THEN [description |-> "Description must be less than 500 characters"]
        ELSE EmptyObj
      dueDateErrors ==
        IF fd.dueDate # NoDateText /\ DateOfText(fd.dueDate)[2] < StartOfLocalDay(t, offset)
        THEN [dueDate |-> "Due date cannot be in the past"]
        ELSE EmptyObj
  IN Spread(Spread(titleErrors, descriptionErrors), dueDateErrors)

\* the data handleSubmit hands to onSubmit
submitData(fd) ==
  Spread(fd, [title |-> trim(fd.title), description |-> trim(fd.description),
              dueDate |-> IF fd.dueDate # NoDateText THEN DateOfText(fd.dueDate) ELSE NullV])

\* submissions in one behaviour
MaxSubmits == 1
\* handleSubmit, with Home.handleTaskSubmit as onSubmit (editingTask is null, so
\* it calls addTask)
handleSubmit(offset) ==
  LET newErrors == validateForm(formData, now, offset)
  IN /\ ~crashed
     /\ calls # <<>>
     /\ Len(submitted) < MaxSubmits
     /\ errors' = newErrors
     /\ IF DOMAIN newErrors = {}
        THEN /\ addTask(submitData(formData))
             /\ submitted' = Append(submitted, [form |-> formData, data |-> submitData(formData),
                                                at |-> now, offset |-> offset])
        ELSE UNCHANGED <<storeVars, submitted>>
     /\ UNCHANGED <<viewVars, apiLog, formData>>

\* what the user types and picks
TitleInputs == { <<>>, <<32>>, <<32, 97, 32>>, Rep(100, 97), Rep(101, 97), Rep(100, 97) \o <<32>> }
DescriptionInputs == { <<>>, <<32, 98>>, Rep(500, 98), Rep(501, 98) }
\* no date, yesterday, today and tomorrow by the UTC calendar
DueDateInputs ==
  { NoDateText, DateText((Epoch \div DayMs) - 1), DateText(Epoch \div DayMs),
    DateText((Epoch \div DayMs) + 1) }

\* the requests stay in flight: what the form hands over, and whether it calls
\* the store, does not depend on how they end
NextForm ==
  \/ /\ Mount
     /\ UNCHANGED <<viewVars, apiLog, formVars>>
  \/ \E value \in TitleInputs : handleInputChange("title", value)
  \/ \E value \in DescriptionInputs : handleInputChange("description", value)
  \/ \E value \in DueDateInputs : handleInputChange("dueDate", value)
  \/ \E offset \in TimezoneOffsets : handleSubmit(offset)

\* the form and the store it submits to
SpecForm == Init /\ [][NextForm]_vars

\* ---- Home with its TaskList: the list rendered and dragged
\* TaskList.handleDragEnd with Home's reorderTasks as onReorder: the task at
\* position `source` of the list TaskList was given (Home's filteredTasks) is
\* moved to position `destination`, and the resulting list is handed to
\* reorderTasks; a task cannot be dragged while loading is true
handleDragEnd(source, destination) ==
  /\ visible.by = "home"
  /\ ~loading
  /\ source \in 1..Len(visible.list)
  /\ destination \in 1..Len(visible.list)
  /\ source # destination
  /\ reorderTasksCall(Move(visible.list, source, destination))
  /\ visible' = NotComputed
  /\ UNCHANGED <<searchQuery, filters, sortConfig, selectedCategory, apiLog, formVars>>

\* a step of the store, after which Home renders again
ThenRender ==
  /\ visible' = NotComputed
  /\ UNCHANGED <<searchQuery, filters, sortConfig, selectedCategory, apiLog, formVars>>

NextDrag ==
  \/ Mount /\ ThenRender
  \/ \E c \in 1..Len(calls) : ServerHandle(c) /\ ThenRender
  \/ \E c \in 1..Len(calls) : Respond(c) /\ ThenRender
  \/ \E c \in 1..Len(calls) : TransportFail(c) /\ ThenRender
  \/ \E f \in FilterInputs : setFilters(f)
  \/ \E cat \in CategoryInputs : setSelectedCategory(cat)
  \/ HomeGetFilteredTasks
  \/ \E source, destination \in 1..Len(visible.list) : handleDragEnd(source, destination)

\* Home, its filters, the list it renders and the reorders dragged in it
SpecDrag == Init /\ [][NextDrag]_vars

\* ---- properties
\* this step is the one in which call c settles
SettleStep(c) == calls[c].pc # "done" /\ calls'[c].pc = "done"
\* the remote call of call c, now settled, failed
RemoteFailed(call) == call.pc = "done" /\ ~call.http.ok
InputFields == {"title", "description", "priority", "tags", "category", "dueDate"}
\* the task carries the submitted data, is not completed and has no subtasks
MatchesInput(task, input) ==
  /\ \A f \in InputFields : Has(task, f) /\ task[f] = input[f]
  /\ Has(task, "completed") /\ task.completed = FALSE
  /\ Has(task, "subtasks") /\ Len(task.subtasks) = 0
\* the positions of `after` whose task was not in `before`
NewEntries(before, after) == {i \in 1..Len(after) : IdOf(after[i]) \notin IdSet(before)}
CreateContract(before, after, input) ==
  /\ Cardinality(NewEntries(before, after)) = 1
  /\ \A i \in NewEntries(before, after) : MatchesInput(after[i], input)
  /\ IdSet(before) \subseteq IdSet(after)

C2_DeleteRollsBack ==
  [][\A c \in 1..Len(calls) :
       (SettleStep(c) /\ calls[c].op = "delete" /\ ~calls'[c].http.ok)
         => LET i == IndexOf(calls[c].closure, calls[c].taskId)
            IN /\ i > 0 => (i <= Len(tasks') /\ IdOf(tasks'[i]) = calls[c].taskId)
               /\ error' = Err(c)
               /\ calls'[c].outcome = "rejected"]_vars

\* C3: whenever a reorder whose remote call failed settles, the collection is in
\* the order it had when reorder was invoked, the current-error slot holds the
\* failure and the call rejected.
C3_ReorderRollsBack ==
  [][\A c \in 1..Len(calls) :
       (SettleStep(c) /\ calls[c].op = "reorder" /\ ~calls'[c].http.ok)
         => /\ Ids(tasks') = Ids(calls[c].closure)
            /\ error' = Err(c)
            /\ calls'[c].outcome = "rejected"]_vars

\* a reorder failed and was rolled back: the collection is not in the order asked for
C3_Witness ==
  \E c \in 1..Len(calls) :
    /\ calls[c].op = "reorder" /\ RemoteFailed(calls[c]) /\ calls[c].outcome = "rejected"
    /\ error = Err(c)
    /\ Len(tasks) = Len(SeedTasks) /\ Ids(tasks) = Ids(SeedTasks)

\* C4: whenever an update of a task of the collection settles after its remote
\* call failed, the task is the optimistic version (the previous fields merged
\* with the patch, updatedAt the time of the call), the call resolved and the
\* current-error slot does not hold that failure.
C4_UpdateKeepsOptimistic ==
  [][\A c \in 1..Len(calls) :
       (SettleStep(c) /\ calls[c].op = "update" /\ ~calls'[c].http.ok
          /\ IndexOf(calls[c].closure, calls[c].taskId) > 0
          /\ IndexOf(tasks, calls[c].taskId) > 0)
         => /\ FindTask(tasks', calls[c].taskId) = calls[c].optimistic
            /\ calls'[c].outcome = "resolved"
            /\ error' # Err(c)]_vars

\* the object todoApi.createTask builds when its request failed
IsFallback(task, input) == MatchesInput(task, input) /\ IdOf(task)[1] = "str"

\* C5: whenever a create whose remote call failed settles, either a fallback
\* task has taken the place of the provisional entry (the entry with the
\* temporary id) and nothing else changed, or the provisional entry is removed
\* and the current-error slot holds the failure.
C5_CreateFailure ==
  [][\A c \in 1..Len(calls) :
       (SettleStep(c) /\ calls[c].op = "create" /\ ~calls'[c].http.ok)
         => \/ /\ Len(tasks') = Len(tasks)
               /\ \A i \in 1..Len(tasks) :
                    IF IdOf(tasks[i]) = calls[c].tempId
                    THEN IsFallback(tasks'[i], calls[c].data)
                    ELSE tasks'[i] = tasks[i]
               /\ error' = error
            \/ /\ tasks' = FilterOut(tasks, calls[c].tempId)
               /\ error' = Err(c)]_vars

\* a create failed remotely and a fallback task stands where the provisional was
C5_Witness ==
  \E c \in 1..Len(calls) :
    /\ calls[c].op = "create" /\ RemoteFailed(calls[c])
    /\ IndexOf(tasks, calls[c].tempId) = 0
    /\ \E i \in 1..Len(tasks) : IsFallback(tasks[i], calls[c].data)

Completed(task) == Has(task, "completed") /\ task.completed
IsToggle(call) == call.op = "update" /\ call.toggle

\* C6 as stated: once two toggleComplete calls on the id of a task have both
\* settled, the task (if still in the collection) has the completed value it had
\* before the first call, in whatever order the two calls settle.
C6_ToggleTwice ==
  [][\A c1, c2 \in 1..Len(calls) :
       (/\ c1 < c2 /\ IsToggle(calls[c1]) /\ IsToggle(calls[c2])
        /\ calls[c1].taskId = calls[c2].taskId
        /\ SettleStep(c1) \/ SettleStep(c2)
        /\ calls'[c1].pc = "done" /\ calls'[c2].pc = "done"
        /\ IndexOf(tasks', calls[c1].taskId) > 0)
         => Completed(FindTask(tasks', calls[c1].taskId)) = Completed(calls[c1].original)]_vars

\* C6 amended: the same for two consecutive toggleComplete calls of which the
\* first settles before the second does, no other store operation being in flight
\* while either is.
C6_ToggleTwiceInOrder ==
  [][\A c1, c2 \in 1..Len(calls) :
       (/\ c2 = c1 + 1 /\ IsToggle(calls[c1]) /\ IsToggle(calls[c2])
        /\ calls[c1].taskId = calls[c2].taskId
        /\ calls[c1].overlap \subseteq {c2} /\ calls[c2].overlap \subseteq {c1}
        /\ calls[c1].pc = "done" /\ SettleStep(c2)
        /\ IndexOf(tasks', calls[c1].taskId) > 0)
         => Completed(FindTask(tasks', calls[c1].taskId)) = Completed(calls[c1].original)]_vars

\* two toggles of one task, the second issued while the first was in flight,
\* have settled and the task has its original completed value
C6_Witness ==
  \E c1, c2 \in 1..Len(calls) :
    /\ c2 = c1 + 1 /\ IsToggle(calls[c1]) /\ IsToggle(calls[c2])
    /\ calls[c1].taskId = calls[c2].taskId
    /\ calls[c1].overlap = {c2} /\ calls[c2].overlap = {c1}
    /\ calls[c1].pc = "done" /\ calls[c2].pc = "done"
    /\ IndexOf(tasks, calls[c1].taskId) > 0
    /\ Completed(FindTask(tasks, calls[c1].taskId)) = Completed(calls[c1].original)

\* the two collections name the same tasks, with the same title and completed
SameIdsTitlesCompleted(ts, us) ==
  /\ IdSet(ts) = IdSet(us)
  /\ \A i \in 1..Len(ts), j \in 1..Len(us) :
       IdOf(ts[i]) = IdOf(us[j])
         => /\ Has(ts[i], "title") = Has(us[j], "title")
            /\ Has(ts[i], "title") => ts[i].title = us[j].title
            /\ Completed(ts[i]) = Completed(us[j])

\* C7: whenever a load whose remote call failed settles, having been invoked
\* (with no other operation in flight) after a snapshot was stored, the collection names the tasks of the snapshot, each with the title
\* and the completed value it has there.
C7_SnapshotRoundTrip ==
  [][\A c \in 1..Len(calls) :
       (SettleStep(c) /\ calls[c].op = "load" /\ ~calls'[c].http.ok /\ localStorage.present
          /\ calls[c].overlap = {})
         => SameIdsTitlesCompleted(tasks', localStorage.value)]_vars

\* C8: whenever a load whose remote call failed settles while no snapshot is
\* stored, the collection is empty and the current-error slot holds the failure.
C8_LoadFailureNoSnapshot ==
  [][\A c \in 1..Len(calls) :
       (SettleStep(c) /\ calls[c].op = "load" /\ ~calls'[c].http.ok /\ ~localStorage.present)
         => tasks' = <<>> /\ error' = Err(c)]_vars

\* this step starts a store operation
InvokeStep == Len(calls') > Len(calls)
\* this step changes nothing but the current-error slot
OnlyErrorChanges ==
  UNCHANGED <<tasks, loading, localStorage, calls, server, nextId, now, crashed>>

\* C9 as stated: a failure in the current-error slot stays there until a later
\* failure overwrites it or clearError empties the slot.
C9_ErrorStays ==
  [][(error # NoError /\ error' # error)
       => \/ error' = NoError /\ OnlyErrorChanges
          \/ \E c \in 1..Len(calls) : SettleStep(c) /\ error' = Err(c)]_vars

\* C9 amended: the slot is emptied when any store operation starts and by
\* clearError; a call that rejects puts its failure into the slot, overwriting
\* what was there; a call that resolves leaves the slot as it is; nothing else
\* changes the slot.
C9_ErrorSlot ==
  [][/\ InvokeStep => error' = NoError
     /\ \A c \in 1..Len(calls) :
          SettleStep(c) => error' = (IF calls'[c].outcome = "rejected" THEN Err(c) ELSE error)
     /\ (error' # error /\ ~InvokeStep /\ \A c \in 1..Len(calls) : ~SettleStep(c))
          => error' = NoError /\ OnlyErrorChanges]_vars

\* a call rejected, its failure was in the slot, and the start of a later
\* operation has emptied the slot
C9_Witness ==
  \E c \in 1..Len(calls) :
    /\ calls[c].pc = "done" /\ calls[c].outcome = "rejected"
    /\ c < Len(calls) /\ calls[c].overlap = {}
    /\ error = NoError

SubtaskOps == {"addSubtask", "updateSubtask", "deleteSubtask"}

\* C10 as stated: whenever a subtask operation whose remote call failed settles,
\* the call rejected, the collection is unchanged and so is the current-error slot.
C10_SubtaskFailureSilent ==
  [][\A c \in 1..Len(calls) :
       (SettleStep(c) /\ calls[c].op \in SubtaskOps /\ ~calls'[c].http.ok)
         => /\ calls'[c].outcome = "rejected"
            /\ tasks' = tasks
            /\ error' = error]_vars

\* C10 amended: whenever a subtask operation whose remote call failed settles,
\* the call rejected, the collection is unchanged and the current-error slot
\* holds that failure.
C10_SubtaskFailureRecorded ==
  [][\A c \in 1..Len(calls) :
       (SettleStep(c) /\ calls[c].op \in SubtaskOps /\ ~calls'[c].http.ok)
         => /\ calls'[c].outcome = "rejected"
            /\ tasks' = tasks
            /\ error' = Err(c)]_vars

\* a subtask operation failed remotely, rejected and left its failure in the slot
C10_Witness ==
  \E c \in 1..Len(calls) :
    /\ calls[c].op \in SubtaskOps /\ RemoteFailed(calls[c])
    /\ calls[c].outcome = "rejected"
    /\ error = Err(c)
    /\ Len(tasks) > 0

Mutations == {"create", "update", "delete", "reorder"}
\* the snapshot holds the serialized collection `ts`
SnapshotIs(ls, ts) == ls = Item(JsonList(ts))

C12_ProjectionLeavesStore ==
  [][visible' # NotComputed => tasks' = tasks]_vars

\* the tasks of a list, as a set
TaskSet(ts) == {ts[i] : i \in 1..Len(ts)}
\* the string q, compared case-insensitively, is a substring of the task's title,
\* of its description or of one of its tags
SearchSelects(task, q) ==
  \/ includes(toLowerCase(task.title), toLowerCase(q))
  \/ Has(task, "description") /\ includes(toLowerCase(task.description), toLowerCase(q))
  \/ \E k \in 1..Len(task.tags) : includes(toLowerCase(task.tags[k]), toLowerCase(q))
\* the task satisfies every criterion that is set
Satisfies(task, q, f) ==
  /\ Len(q) > 0 => SearchSelects(task, q)
  /\ f.status = "completed" => IsCompleted(task)
  /\ f.status = "pending" => ~IsCompleted(task)
  /\ f.priority # "" => task.priority = f.priority
  /\ f.category # "" => task.category = f.category
  /\ Len(f.tags) > 0 => \E k \in 1..Len(f.tags) : \E m \in 1..Len(task.tags) : task.tags[m] = f.tags[k]
\* a step that computes a visible list
Computes == visible' # NotComputed

\* C13, for the list Home renders: whenever Home computes its visible list (its
\* own category selector being on 'all' and no search string set), the list
\* holds exactly the tasks of the collection that satisfy every criterion that is
\* set: status, priority, category and tags.
C13_HomeVisibleIsFiltered ==
  [][(Computes /\ visible'.by = "home" /\ selectedCategory = "all" /\ searchQuery = <<>>)
       => TaskSet(visible'.list) = {t \in TaskSet(tasks) : Satisfies(t, searchQuery, filters)}]_vars

\* priority = high is the only criterion that is set
OnlyPriorityHigh ==
  /\ filters = [status |-> "all", priority |-> "high", category |-> "", tags |-> <<>>]
  /\ searchQuery = <<>>
  /\ selectedCategory = "all"
HighTasks(ts) == {t \in TaskSet(ts) : t.priority = "high"}

\* C14: whenever a visible list is computed with priority = high as the only
\* criterion, the list holds exactly the high-priority tasks of the collection,
\* each once, whatever the sort field and direction.
C14_PriorityHighAnySort ==
  [][(Computes /\ OnlyPriorityHigh)
       => /\ TaskSet(visible'.list) = HighTasks(tasks)
          /\ Len(visible'.list) = Cardinality(HighTasks(tasks))]_vars

\* Home computed the list of the two high-priority tasks of a collection of
\* three, sorted by title
C14_Witness ==
  /\ visible.by = "home" /\ OnlyPriorityHigh
  /\ sortConfig = [field |-> "title", direction |-> "asc"]
  /\ Len(tasks) = 3 /\ Len(visible.list) = 2
  /\ TaskSet(visible.list) = HighTasks(tasks)

\* the search string is the only criterion that is set
OnlySearch ==
  /\ filters = [status |-> "all", priority |-> "", category |-> "", tags |-> <<>>]
  /\ selectedCategory = "all"
Selected(ts, q) == {t \in TaskSet(ts) : SearchSelects(t, q)}

\* C15 as stated: whenever a visible list is computed with a non-empty search
\* string as the only criterion, it holds exactly the tasks in whose title,
\* description or tags the string occurs, compared case-insensitively.
C15_SearchSelects ==
  [][(Computes /\ OnlySearch /\ Len(searchQuery) > 0)
       => TaskSet(visible'.list) = Selected(tasks, searchQuery)]_vars

\* C15 amended: the same for a search string that is not blank (it has a
\* character that is not a space).
C15_NotBlankSearchSelects ==
  [][(Computes /\ OnlySearch /\ NotBlank(searchQuery))
       => TaskSet(visible'.list) = Selected(tasks, searchQuery)]_vars

\* the search for "SHOP" returned two tasks of a collection of three: "shop" and
\* "Shop" are tags of theirs and occur in no title and no description
C15_Witness ==
  /\ visible # NotComputed /\ OnlySearch
  /\ searchQuery = <<83, 72, 79, 80>>
  /\ Len(tasks) = 3 /\ Len(visible.list) = 2
  /\ \A i \in 1..2 :
       LET t == visible.list[i]
       IN /\ ~includes(toLowerCase(t.title), toLowerCase(searchQuery))
          /\ ~includes(toLowerCase(t.description), toLowerCase(searchQuery))

HasDueDate(task) == TruthyDate(task, "dueDate")

Ordinal(p) == IF p = "high" THEN 3 ELSE IF p = "medium" THEN 2 ELSE IF p = "low" THEN 1 ELSE 0

\* C17: whenever a visible list is computed with sort by priority, its tasks
\* stand in non-decreasing order of the ordinal when the direction is ascending
\* and in non-increasing order when it is descending, and two tasks of equal
\* ordinal stand in the order they had in the collection.
C17_PrioritySort ==
  [][(Computes /\ sortConfig'.field = "priority")
       => \A i, j \in 1..Len(visible'.list) :
            i < j => LET a == visible'.list[i]
                         b == visible'.list[j]
                     IN /\ sortConfig'.direction = "asc" => Ordinal(a.priority) <= Ordinal(b.priority)
                        /\ sortConfig'.direction = "desc" => Ordinal(a.priority) >= Ordinal(b.priority)
                        /\ Ordinal(a.priority) = Ordinal(b.priority)
                             => IndexOf(tasks, IdOf(a)) < IndexOf(tasks, IdOf(b))]_vars

\* the hook's list of a collection of three, sorted by ascending priority: a task
\* of unrecognized priority, moved to the front, then two high-priority tasks
C17_Witness ==
  /\ visible.by = "hook" /\ sortConfig = [field |-> "priority", direction |-> "asc"]
  /\ Len(visible.list) = 3 /\ visible.list # tasks
  /\ Ordinal(visible.list[1].priority) = 0
  /\ Ordinal(visible.list[2].priority) = 3 /\ Ordinal(visible.list[3].priority) = 3
  /\ IndexOf(tasks, IdOf(visible.list[2])) < IndexOf(tasks, IdOf(visible.list[3]))

\* C18: no invocation of a store operation sends a second request: it stays at
\* its first attempt, and once its request has been answered or has failed it is
\* never again waiting for a request.
C18_NoRetry ==
  [][\A c \in 1..Len(calls) :
       /\ calls'[c].attempt = 1
       /\ calls[c].pc # "sent" => calls'[c].pc # "sent"]_vars

\* a create and another operation both failed remotely and nothing is in flight
C18_Witness ==
  /\ InFlight = {}
  /\ \E c, d \in 1..Len(calls) :
       /\ calls[c].op = "create" /\ RemoteFailed(calls[c]) /\ calls[c].attempt = 1
       /\ calls[d].op \in {"reorder", "delete", "update"} /\ RemoteFailed(calls[d])

\* the operations of todoApi that catch a failure of their request
Swallowing == {"getTasks", "createTask", "updateTask", "deleteTask"}

\* C19 as stated: no direct call of an operation of todoApi whose request failed
\* was rejected.
C19_ApiNeverRejects ==
  \A i \in 1..Len(apiLog) : ~apiLog[i].ok => ~apiLog[i].returned.rejected

\* C19 amended: a call whose request failed was rejected unless the operation is
\* getTasks, createTask, updateTask or deleteTask; of these getTasks returned the
\* mock tasks, createTask a locally built task with the submitted data, updateTask
\* the id and the patch with a new updatedAt, and deleteTask nothing.
C19_ApiFallbacks ==
  \A i \in 1..Len(apiLog) :
    ~apiLog[i].ok
      => LET op == apiLog[i].op
             r == apiLog[i].returned
         IN /\ r.rejected <=> op \notin Swallowing
            /\ op = "getTasks" => r.value = getMockTasks(now)
            /\ op = "createTask"
                 => /\ IdOf(r.value) = StrId(now)
                    /\ MatchesInput(r.value, ApiTaskData)
            /\ op = "updateTask"
                 => r.value = [id |-> ApiTaskId, completed |-> TRUE, updatedAt |-> DateV(now)]
            /\ op = "deleteTask" => IsUndefined(r.value)

\* getTasks returned the four mock tasks and reorderTasks was rejected, the
\* request of each having failed
C19_Witness ==
  \E i, j \in 1..Len(apiLog) :
    /\ apiLog[i].op = "getTasks" /\ ~apiLog[i].ok
    /\ ~apiLog[i].returned.rejected /\ Len(apiLog[i].returned.value) = 4
    /\ apiLog[j].op = "reorderTasks" /\ ~apiLog[j].ok /\ apiLog[j].returned.rejected

\* C20: a step that invokes updateTask (not through toggleTaskComplete) with an
\* id that names no task of the collection issues no request and leaves the
\* collection, the current-error slot and the snapshot as they are.
C20_UpdateOfAbsentTask ==
  [][(/\ InvokeStep
      /\ calls'[Len(calls')].op = "update" /\ ~calls'[Len(calls')].toggle
      /\ IndexOf(tasks, calls'[Len(calls')].taskId) = 0)
       => /\ calls'[Len(calls')].pc # "sent"
          /\ tasks' = tasks /\ error' = error /\ localStorage' = localStorage]_vars

\* C21: while a loadTasks call is in flight the loading flag is true, whatever
\* other store operations start or settle meanwhile.
C21_LoadingWhileLoadInFlight ==
  \A c \in InFlight : calls[c].op = "load" => loading = TRUE

\* C22: in every reachable state no two tasks of the collection have the same id.
C22_IdsUnique ==
  \A i, j \in 1..Len(tasks) : IdOf(tasks[i]) = IdOf(tasks[j]) => i = j

\* the two task objects differ at most in their subtasks
SameButSubtasks(a, b) ==
  /\ DOMAIN a = DOMAIN b
  /\ \A f \in DOMAIN a \ {"subtasks"} : a[f] = b[f]
\* the two collections hold the same tasks in the same order, except for the
\* subtasks of the tasks whose id is taskId
OnlySubtasksOf(ts, us, taskId) ==
  /\ Len(ts) = Len(us)
  /\ \A i \in 1..Len(ts) :
       IF IdOf(ts[i]) = taskId THEN SameButSubtasks(ts[i], us[i]) ELSE ts[i] = us[i]

\* C23: a step of addSubtask, updateSubtask or deleteSubtask (its start or its
\* settling) leaves every task with another id, every field but subtasks of the
\* task named by taskId and the order of the collection as they were; when
\* taskId names no task of the collection, the collection is unchanged.
C23_SubtaskOpsFrame ==
  [][/\ (InvokeStep /\ calls'[Len(calls')].op \in SubtaskOps) => tasks' = tasks
     /\ \A c \in 1..Len(calls) :
          (SettleStep(c) /\ calls[c].op \in SubtaskOps)
            => /\ OnlySubtasksOf(tasks, tasks', calls[c].taskId)
               /\ IndexOf(tasks, calls[c].taskId) = 0 => tasks' = tasks]_vars

\* an addSubtask on the first task of the backend has settled: that task has one
\* subtask more than the backend's seed and is otherwise as loaded, and the
\* other task is as loaded
C23_Witness ==
  \E c \in 1..Len(calls) :
    /\ calls[c].op = "addSubtask" /\ calls[c].pc = "done" /\ calls[c].outcome = "resolved"
    /\ calls[c].http.ok /\ calls[c].taskId = IdOf(SeedTasks[1])
    /\ Len(tasks) = Len(SeedTasks)
    /\ Len(tasks[1].subtasks) = Len(SeedTasks[1].subtasks) + 1
    /\ SameButSubtasks(tasks[1], transformTaskDates(SeedTasks[1], now))
    /\ tasks[2] = transformTaskDates(SeedTasks[2], now)

\* the create calls of the store, in the order they were invoked
Creates == SeqFilter(LAMBDA call : call.op = "create", calls)

\* C24: every submission the form handed to its submit handler was made from a
\* title that, trimmed, is not empty and has at most 100 characters, a
\* description of at most 500 characters and a due date that is absent or not
\* earlier than the start of the day of the submission; and the store was called
\* for these submissions only, with data that passed these tests.
C24_OnlyValidSubmitted ==
  /\ \A k \in 1..Len(submitted) :
       LET s == submitted[k]
       IN /\ trim(s.form.title) # <<>> /\ Len(trim(s.form.title)) <= 100
          /\ s.data.title = trim(s.form.title)
          /\ Len(s.form.description) <= 500 /\ Len(s.data.description) <= 500
          /\ \/ s.form.dueDate = NoDateText /\ s.data.dueDate = NullV
             \/ /\ s.form.dueDate # NoDateText
                /\ s.data.dueDate[1] = "Date"
                /\ s.data.dueDate[2] >= StartOfLocalDay(s.at, s.offset)
  /\ Len(Creates) = Len(submitted)
  /\ \A k \in 1..Len(Creates) : Creates[k].data = submitted[k].data

\* the form submitted a title of 100 characters with today's date, its
\* validation leaving no message, and the store was called with it
C24_Witness ==
  /\ Len(submitted) = 1 /\ Len(Creates) = 1
  /\ Len(submitted[1].data.title) = 100
  /\ submitted[1].data.dueDate = DateV(Epoch)
  /\ DOMAIN errors = {}

\* C25: a reorder dragged in Home's list while a filter hides some tasks keeps
\* the ids of the collection: its optimistic step leaves the set of ids as it
\* was, and so does its settling by rollback.
C25_DragKeepsHiddenTasks ==
  [][/\ (InvokeStep /\ calls'[Len(calls')].op = "reorder" /\ Len(visible.list) < Len(tasks))
          => IdSet(tasks') = IdSet(tasks)
     /\ \A c \in 1..Len(calls) :
          (SettleStep(c) /\ calls[c].op = "reorder" /\ calls'[c].outcome = "rejected")
            => IdSet(tasks') = IdSet(calls[c].closure)]_vars

\* the id is derived from the client's clock: a temporary id or the id of a
\* fallback task
ClockId(id) == id[1] = "temp" \/ (id[1] = "str" /\ id[2] >= Epoch)
\* call c is a deleteTask whose remote call succeeded and that has settled, of a
\* task whose id is not derived from the clock
RemoveSettled(c) ==
  /\ calls[c].op = "delete" /\ calls[c].pc = "done" /\ calls[c].outcome = "resolved"
  /\ calls[c].http.ok
  /\ ~ClockId(calls[c].taskId)
\* this step puts a task with this id, which the collection did not hold, into it
ComesBack(id) == id \notin IdSet(tasks) /\ id \in IdSet(tasks')

\* C26 as stated: once a deleteTask has settled successfully, a task with its id
\* comes into the collection again only when a load settles or an operation
\* whose remote call succeeded settles (a server response); no rollback puts it
\* back.
C26_RemovedStaysOut ==
  [][\A c \in 1..Len(calls) :
       (RemoveSettled(c) /\ ComesBack(calls[c].taskId))
         => \E d \in 1..Len(calls) :
              SettleStep(d) /\ (calls[d].op = "load" \/ calls'[d].http.ok)]_vars

\* C26 amended: the same, except that the rollback of a reorder that was invoked
\* before the deleteTask settled also puts the task back.
C26_RemovedBackByReorderOnly ==
  [][\A c \in 1..Len(calls) :
       (RemoveSettled(c) /\ ComesBack(calls[c].taskId))
         => \E d \in 1..Len(calls) :
              /\ SettleStep(d)
              /\ \/ calls[d].op = "load"
                 \/ calls'[d].http.ok
                 \/ calls[d].op = "reorder" /\ calls'[d].outcome = "rejected"
                      /\ calls[c].taskId \in IdSet(calls[d].closure)]_vars

\* a deleteTask of a task of the backend has settled, a create that was in
\* flight at the same time has settled after it, and the task is not in the
\* collection
C26_Witness ==
  \E c, d \in 1..Len(calls) :
    /\ RemoveSettled(c)
    /\ calls[d].op = "create" /\ calls[d].pc = "done" /\ d \in calls[c].overlap
    /\ calls[c].taskId \in IdSet(SeedTasks)
    /\ Len(tasks) > 0 /\ calls[c].taskId \notin IdSet(tasks)

\* this step is the rollback of call c: a deleteTask or reorderTasks whose
\* request failed settles by restoring the collection
RollbackStep(c) ==
  SettleStep(c) /\ calls[c].op \in {"delete", "reorder"} /\ calls'[c].outcome = "rejected"

\* C27 as stated: the rollback of a failed deleteTask or reorderTasks keeps what
\* other operations did since the call was invoked: every task of the collection
\* that is not as the call captured it (created or changed meanwhile) is in the
\* collection after the rollback.
C27_RollbackKeepsOthers ==
  [][\A c \in 1..Len(calls) :
       RollbackStep(c)
         => \A i \in 1..Len(tasks) :
              tasks[i] \notin TaskSet(calls[c].closure) => tasks[i] \in TaskSet(tasks')]_vars

\* C27 amended: the rollback leaves the collection exactly as the call captured
\* it when it was invoked, so a task created or changed meanwhile is kept only
\* if it was already so at the invocation.
C27_RollbackRestoresCaptured ==
  [][\A c \in 1..Len(calls) : RollbackStep(c) => tasks' = calls[c].closure]_vars

\* a reorder was rolled back while a create invoked after it was still in
\* flight: the collection is in the order of the backend's list again and the
\* provisional task of the create is not in it
C27_Witness ==
  \E c, d \in 1..Len(calls) :
    /\ calls[c].op = "reorder" /\ calls[c].pc = "done" /\ calls[c].outcome = "rejected"
    /\ calls[d].op = "create" /\ d > c /\ d \in calls[c].overlap /\ calls[d].pc # "done"
    /\ Ids(tasks) = Ids(SeedTasks)
    /\ calls[d].tempId \notin IdSet(tasks)

FrameFields ==
  {"title", "description", "priority", "tags", "category", "dueDate", "createdAt", "subtasks",
   "order"}

\* C28: whenever an updateTask (or the updateTask of a toggleTaskComplete) of a
\* task of the collection settles, no other store operation having been in
\* flight meanwhile, the task has every field it had before the call, with the
\* same value, except the fields of the patch and updatedAt, whether the remote
\* call succeeded or failed.
C28_UpdateKeepsOtherFields ==
  [][\A c \in 1..Len(calls) :
       (SettleStep(c) /\ calls[c].op = "update" /\ calls[c].overlap = {}
          /\ ~IsUndefined(calls[c].original))
         => LET before == calls[c].original
                after == FindTask(tasks', calls[c].taskId)
            IN \A f \in (FrameFields \cap DOMAIN before) \ DOMAIN calls[c].data :
                 Has(after, f) /\ after[f] = before[f]]_vars

\* C29: when every request that is awaited ends, every store operation that was
\* invoked eventually settles (a render error that unmounts the tree ends the
\* run; none is reachable within MaxLiveCalls calls); and in every state in
\* which no store operation is in flight the loading flag is false.
C29_SettlesAndLoadingFalls ==
  /\ [](InFlight = {} => loading = FALSE)
  /\ \A c \in 1..MaxLiveCalls :
       [](Len(calls) >= c => <>(crashed \/ (Len(calls) >= c /\ calls[c].pc = "done")))

\* the operations invoked have all settled, one by resolving and one by
\* rejecting, the tree is mounted and the loading flag is false
C29_Witness ==
  /\ Len(calls) = MaxLiveCalls /\ InFlight = {} /\ ~crashed
  /\ \E c \in 1..Len(calls) : calls[c].outcome = "rejected"
  /\ \E c \in 1..Len(calls) : calls[c].outcome = "resolved"
  /\ loading = FALSE


\* call c is an addTask that has settled
CreateSettled(c) == calls[c].op = "create" /\ calls[c].pc = "done"

\* C30 as stated: once an addTask has settled, whatever its outcome, no task of
\* the collection carries its temporary id.
C30_TempIdGone ==
  \A c \in 1..Len(calls) : CreateSettled(c) => calls[c].tempId \notin IdSet(tasks)

=============================================================================
